---- MODULE Spec2Model ----
(***************************************************************************)
(* Model of the image-validating admission webhook.                        *)
(*                                                                         *)
(* The validator (pkg/admissions/pods/validator.go) walks the init         *)
(* containers and then the regular containers of a pod, and for each one   *)
(* consults the whitelist, the registry security policy cache and the      *)
(* trust (notary) client.  Image references and reason texts are modelled  *)
(* as the strings the program builds.                                      *)
(***************************************************************************)
EXTENDS Integers, Sequences, FiniteSets, TLC

VARIABLES
    pod,            \* the pod handed to CheckIsValidAndAddDigest (mutated in place)
    orig,           \* the pod as submitted (history variable)
    whiteList,      \* WhiteList snapshot: byImages, byNamespaces
    policyCache,    \* registry host -> answer of doesMatchPolicy in the pod's namespace
    trustServer,    \* registry host -> answer of notary.FetchSignature
    signerPolicies, \* signer names of the SignerPolicy records of the pod's namespace
    pc,             \* position of the run: "start", "init", "regular", "done"
    idx,            \* loop index in the list being scanned (1-based)
    result,         \* (valid, reason, err) returned, once pc = "done"
    inspected,      \* history: containers whose loop body ran, in order
    fetched,        \* history: FetchSignature invocations, in order
    lookups,        \* history: credential and registry policy lookups, in order
    authCall,       \* one call of getBasicAuthForRegistry: its arguments, the
                    \* secrets of the namespace, the loop index and what it returned
    parsing,        \* one call of getImageInfo: the reference and what it returned
    cache,          \* the whitelist cache: the snapshots on the heap, the handle to
                    \* the live one, the refresh in progress and the lookups of the
                    \* validation runs reading it
    handler,        \* one call of DockerHandler.isSignedImage: the image, the
                    \* signer policies of the handler, the signatures read from
                    \* the trust inspection and what it returned
    meta,           \* one call of notaryRepo.GetSignedMetadata: what the trust
                    \* server answered, the rows reduced and what it returned
    repo            \* the notaryRepo a caller holds: its token, the image's BasicAuth and
                    \* the position of the GetToken call in progress

\* the variables of a validation run
validatorVars == <<pod, orig, whiteList, policyCache, trustServer, signerPolicies,
                   pc, idx, result, inspected, fetched, lookups>>

vars == <<validatorVars, authCall, parsing, cache, handler, meta, repo>>

\* value of a variable whose component takes no part in the specification
Off == "off"

\* no call of getBasicAuthForRegistry is modelled on its own
AuthOff == [pc |-> Off]

\* no call of getImageInfo is modelled on its own
ParseOff == [pc |-> Off]

\* no cache is modelled on its own
CacheOff == [pc |-> Off]

\* no call of DockerHandler.isSignedImage is modelled on its own
HandlerOff == [pc |-> Off]

\* no call of GetSignedMetadata is modelled on its own
MetaOff == [pc |-> Off]

\* no trust client is constructed
RepoOff == [pc |-> Off]

----------------------------------------------------------------------------
(* Bounds of the model *)

MaxInit == 1
MaxContainers == 2

(* the Go nil error *)
NoError == "<nil>"

----------------------------------------------------------------------------
(* strings *)

\* strings.Contains
Contains(s, sub) ==
    \E i \in 1..(Len(s) - Len(sub) + 1) : SubSeq(s, i, i + Len(sub) - 1) = sub

\* strings.Index, 1-based, 0 when absent
Index(s, sub) ==
    IF Contains(s, sub)
    THEN CHOOSE i \in 1..(Len(s) - Len(sub) + 1) :
            /\ SubSeq(s, i, i + Len(sub) - 1) = sub
            /\ \A j \in 1..(i - 1) : SubSeq(s, j, j + Len(sub) - 1) # sub
    ELSE 0

\* strings.LastIndex, 1-based, 0 when absent
LastIndex(s, sub) ==
    IF Contains(s, sub)
    THEN CHOOSE i \in 1..(Len(s) - Len(sub) + 1) :
            /\ SubSeq(s, i, i + Len(sub) - 1) = sub
            /\ \A j \in (i + 1)..(Len(s) - Len(sub) + 1) :
                   SubSeq(s, j, j + Len(sub) - 1) # sub
    ELSE 0

\* strings.HasPrefix
HasPrefix(s, prefix) ==
    Len(s) >= Len(prefix) /\ SubSeq(s, 1, Len(prefix)) = prefix

\* strings.Split(s, sep) for a one-character separator
RECURSIVE Split(_, _)
Split(s, sep) ==
    IF ~Contains(s, sep)
    THEN <<s>>
    ELSE LET i == Index(s, sep)
         IN  <<SubSeq(s, 1, i - 1)>> \o Split(SubSeq(s, i + 1, Len(s)), sep)

----------------------------------------------------------------------------
(* image references *)

\* legacy parser: host is everything before the LAST "/", the tag is the
\* second ":"-separated field of what follows
getImageInfo(image) ==
    LET slash == LastIndex(image, "/")
        host  == IF Contains(image, "/") THEN SubSeq(image, 1, slash - 1)
                                         ELSE "docker.io"
        rest  == IF Contains(image, "/") THEN SubSeq(image, slash + 1, Len(image))
                                         ELSE image
        temp  == Split(rest, ":")
    IN  [registry |-> host,
         name     |-> IF Contains(rest, ":") THEN temp[1] ELSE rest,
         tag      |-> IF Contains(rest, ":") THEN temp[2] ELSE "latest"]

\* parseImage of the validator: an "@sha256:" suffix is the digest, the rest
\* is split into host, name and tag
parseImage(image) ==
    LET at   == Index(image, "@")
        head == IF at = 0 THEN image ELSE SubSeq(image, 1, at - 1)
        tail == IF at = 0 THEN "" ELSE SubSeq(image, at + 1, Len(image))
        info == getImageInfo(head)
    IN  [host   |-> info.registry,
         name   |-> info.name,
         tag    |-> info.tag,
         digest |-> IF HasPrefix(tail, "sha256:")
                    THEN SubSeq(tail, 8, Len(tail)) ELSE tail]

\* ref.String(): host/name:tag, with @sha256:digest when a digest is set
String(ref) ==
    ref.host \o "/" \o ref.name \o ":" \o ref.tag \o
    (IF ref.digest = "" THEN "" ELSE "@sha256:" \o ref.digest)

----------------------------------------------------------------------------
(* whitelist *)

isImageInWhiteList(wl, image) ==
    LET imageInfo == getImageInfo(image)
        validFormatImage ==
            imageInfo.registry \o "/" \o imageInfo.name \o ":" \o imageInfo.tag
    IN  \E i \in 1..Len(wl.byImages) : Contains(validFormatImage, wl.byImages[i])

isNamespaceInWhiteList(wl, namespace) ==
    \E i \in 1..Len(wl.byNamespaces) : wl.byNamespaces[i] = namespace

IsImageWhiteListed(wl, image) == isImageInWhiteList(wl, image)

IsNamespaceWhiteListed(wl, namespace) == isNamespaceInWhiteList(wl, namespace)

----------------------------------------------------------------------------
(* trust summary *)

\* faulty variant: the loop keeps the digest of the first row signed for the tag
RECURSIVE getDigestFrom_keepsFirst(_, _, _, _)
getDigestFrom_keepsFirst(tag, signedTags, i, digest) ==
    IF i > Len(signedTags)
    THEN digest
    ELSE getDigestFrom_keepsFirst(tag, signedTags, i + 1,
                                  IF signedTags[i].SignedTag = tag /\ digest = ""
                                  THEN signedTags[i].Digest ELSE digest)

\* the loop of getDigest from row i on: every row signed for the tag
\* overwrites the digest found so far
RECURSIVE getDigestFrom(_, _, _, _)
getDigestFrom(tag, signedTags, i, digest) ==
    IF i > Len(signedTags)
    THEN digest
    ELSE getDigestFrom(tag, signedTags, i + 1,
                       IF signedTags[i].SignedTag = tag
                       THEN signedTags[i].Digest ELSE digest)

\* digest signed for the tag, "" when no row is signed for it
getDigest(tag, signedTags) == getDigestFrom(tag, signedTags, 1, "")

\* key IDs owned by each signer (the SignerKey records of the cluster)
SignerKeys == [alice |-> <<"k1">>, bob |-> <<"k2">>, carol |-> <<>>]

\* signatures: the trust summaries returned for the image (empty when unsigned)
hasMatchedSigner(policies, signatures) ==
    IF Len(policies) = 0
    THEN Len(signatures) # 0
    ELSE IF Len(signatures) = 0
    THEN FALSE
    ELSE LET key == signatures[1].RepoAdminKey
         IN  \E p \in 1..Len(policies) :
             \E s \in 1..Len(policies[p].Signers) :
                 LET targets == SignerKeys[policies[p].Signers[s]]
                 IN  \E t \in 1..Len(targets) : targets[t] = key

\* the notary server a trust client talks to
DefaultNotaryServer == "https://notary.docker.io"

notaryServerURL(notaryURL) ==
    IF notaryURL = "" THEN DefaultNotaryServer ELSE notaryURL


----------------------------------------------------------------------------
(* the environment of one validation run *)

Images == {"r/a:v1", "r/a:v1@sha256:d2", "q/b:v2"}

Hosts == {"r", "q"}

Namespaces == {"default", "kube-system"}

\* sequences over S of length lo..hi
SeqsOf(S, lo, hi) == UNION {[1..n -> S] : n \in lo..hi}

PullSecretLists == {<<"s1", "s2">>}

Pods ==
    [Namespace        : Namespaces,
     InitContainers   : SeqsOf(Images, 0, MaxInit),
     Containers       : SeqsOf(Images, 1, MaxContainers),
     ImagePullSecrets : PullSecretLists]

WhiteLists ==
    [byImages : {<<>>, <<"q/b">>, <<"r/a">>}, byNamespaces : {<<"kube-system">>}]

\* answers of registryPolicyCache.doesMatchPolicy: (valid, policy)
NoPolicy == [valid |-> FALSE, Registry |-> "", Notary |-> "", SignCheck |-> FALSE]

PolicyAnswers(host) ==
    {NoPolicy} \cup
    [valid : {TRUE}, Registry : {""}, Notary : {""}, SignCheck : BOOLEAN] \cup
    [valid : {TRUE}, Registry : {host}, Notary : {"https://n"}, SignCheck : BOOLEAN] \cup
    [valid : {TRUE}, Registry : {host}, Notary : {""}, SignCheck : {TRUE}]

\* answers of notary.FetchSignature: (sig, err); signatures is empty for a
\* nil sig and holds the one trust summary otherwise
FetchError == "trust fetch error"

Row(tag, digest) == [SignedTag |-> tag, Digest |-> digest]

SignedTagLists ==
    {<<Row("v1", "d1")>>, <<Row("v1", "d1"), Row("v1", "d2")>>, <<Row("v2", "d1")>>}

Unsigned == [err |-> NoError, signatures |-> <<>>]

TrustAnswers ==
    {[err |-> FetchError, signatures |-> <<>>], Unsigned} \cup
    {[err |-> NoError,
      signatures |-> <<[SignedTags |-> rows, RepoAdminKey |-> "k1"]>>] :
        rows \in SignedTagLists}

\* the trust server is consulted only under a policy that names a registry
\* and requires signatures; under any other policy one answer stands for all
TrustAnswersUnder(policy) ==
    IF policy.valid /\ policy.Registry # "" /\ policy.SignCheck
    THEN TrustAnswers
    ELSE {Unsigned}

\* the SignerPolicy records of each namespace
SignerPoliciesIn ==
    [ns \in Namespaces |->
        IF ns = "default" THEN <<[Signers |-> <<"bob">>]>> ELSE <<>>]

NoResult == [valid |-> FALSE, reason |-> "", err |-> "<pending>"]

Init ==
    /\ pod \in Pods
    /\ orig = pod
    /\ whiteList \in WhiteLists
    /\ \E a \in PolicyAnswers("r") :
          /\ policyCache = [h \in Hosts |-> IF h = "r" THEN a ELSE NoPolicy]
          /\ trustServer \in {[h \in Hosts |-> IF h = "r" THEN t ELSE Unsigned] :
                                  t \in TrustAnswersUnder(a)}
    /\ signerPolicies = SignerPoliciesIn[pod.Namespace]
    /\ pc = "start"
    /\ idx = 1
    /\ result = NoResult
    /\ inspected = <<>>
    /\ fetched = <<>>
    /\ lookups = <<>>
    /\ authCall = AuthOff
    /\ parsing = ParseOff
    /\ cache = CacheOff
    /\ handler = HandlerOff
    /\ meta = MetaOff
    /\ repo = RepoOff


----------------------------------------------------------------------------
(* registry credentials *)

\* what the cluster answers for one pull secret: the secret does not exist,
\* it carries no credential for the host, or it carries one
SecretAnswers == {"missing", "nocred", "cred"}

SecretError(name) == "couldn't get secret named " \o name

\* the loop of getBasicAuthForRegistry from pull secret i on
RECURSIVE getBasicAuthFrom(_, _, _)
getBasicAuthFrom(pullSecrets, store, i) ==
    IF i > Len(pullSecrets)
    THEN [basicAuth |-> "", err |-> NoError]
    ELSE IF store[pullSecrets[i]] = "missing"
    THEN [basicAuth |-> "", err |-> SecretError(pullSecrets[i])]
    ELSE IF store[pullSecrets[i]] = "nocred"
    THEN getBasicAuthFrom(pullSecrets, store, i + 1)
    ELSE [basicAuth |-> "auth-" \o pullSecrets[i], err |-> NoError]

getBasicAuthForRegistry(pullSecrets, store) == getBasicAuthFrom(pullSecrets, store, 1)

\* the answers the cluster can give for the pull secrets of a pod
AuthAnswers ==
    [pullSecrets \in PullSecretLists |->
        {getBasicAuthForRegistry(pullSecrets, store) :
            store \in [{pullSecrets[i] : i \in 1..Len(pullSecrets)} -> SecretAnswers]}]

----------------------------------------------------------------------------
(* the decisions of addDigestWhenImageValid for one container *)

\* faulty variant: the first branch without its "valid &&"
isExempt_ignoresValid(policy) == policy.Registry = ""

\* faulty variant: the first branch testing the notary URL
isExempt_byNotary(policy) == policy.valid /\ policy.Notary = ""

\* first branch: valid && policy.Registry == ""
isExempt(policy) == policy.valid /\ policy.Registry = ""

\* faulty variant: the SignCheck test inverted
signCheckSkipped_inverted(policy) == policy.SignCheck

\* second branch: !policy.SignCheck
signCheckSkipped(policy) == ~policy.SignCheck

\* the else-if chain: a valid policy that names a registry and does not
\* require signatures
isSignCheckOff(policy) ==
    ~isExempt(policy) /\ policy.valid /\ signCheckSkipped(policy)

\* the else-if chain: the trust client is called
needsSignature(policy) ==
    ~isExempt(policy) /\ policy.valid /\ ~signCheckSkipped(policy)

\* the else-if chain: no branch taken, the policy is not met
noPolicy(policy) == ~isExempt(policy) /\ ~policy.valid

\* faulty variant: a nil sig taken for a failed fetch
fetchFailed_orNilSig(answer) == answer.err # NoError \/ answer.signatures = <<>>

\* faulty variant: the error of FetchSignature dropped
fetchFailed_never(answer) == FALSE

\* err != nil after FetchSignature
fetchFailed(answer) == answer.err # NoError

\* sig == nil
isNotSigned(answer) == answer.signatures = <<>>

\* faulty variant: the submitted digest never compared
digestDiffers_never(refDigest, digest) == FALSE

\* ref.digest != "" && ref.digest != digest
digestDiffers(refDigest, digest) == refDigest # "" /\ refDigest # digest

\* ref with its digest set to the signed one, serialised
pinnedImage(ref, digest) == String([ref EXCEPT !.digest = digest])

notSignedReason(image) == "Image '" \o image \o "' is not signed"

digestReason(image) ==
    "Image '" \o image \o "''s digest is different from the signed digest"

policyReason(image) ==
    "Image '" \o image \o
    "' does not meet registry security policy. Please check the RegistrySecurityPolicy"


----------------------------------------------------------------------------
(* CheckIsValidAndAddDigest *)

Scanning == pc \in {"init", "regular"}

\* the list addDigestWhenImageValid is scanning
containers == IF pc = "init" THEN pod.InitContainers ELSE pod.Containers

InLoop == Scanning /\ idx <= Len(containers)

image == containers[idx]

\* parseImage over the images a pod can carry
Parsed == [i \in Images |-> parseImage(i)]

ref == Parsed[image]

\* h.whiteList.IsImageWhiteListed(container.Image), tabulated over the
\* whitelists and images of the model
WhiteListed ==
    [wl \in WhiteLists |-> {i \in Images : IsImageWhiteListed(wl, i)}]

imageWhiteListed == image \in WhiteListed[whiteList]

\* CheckIsValidAndAddDigest returns (valid, reason, err)
Return(valid, reason, err) ==
    /\ pc' = "done"
    /\ idx' = idx
    /\ result' = [valid |-> valid, reason |-> reason, err |-> err]

\* faulty variant: the regular containers scanned first
firstList_regular == "regular"

\* the list CheckIsValidAndAddDigest scans first; the other one follows
firstList == "init"

secondList == IF firstList = "init" THEN "regular" ELSE "init"

\* addDigestWhenImageValid returned (true, "", nil): the second list follows
\* the first, and the pod is valid after the second
ListValid ==
    IF pc = firstList
    THEN pc' = secondList /\ idx' = 1 /\ result' = result
    ELSE Return(TRUE, "", NoError)

\* the return inside the loop body for a container found valid
ContainerValid == ListValid

\* containers[i].Image = img
SetImage(img) ==
    pod' = IF pc = "init"
           THEN [pod EXCEPT !.InitContainers[idx] = img]
           ELSE [pod EXCEPT !.Containers[idx] = img]

Inspect == inspected' = Append(inspected, [list |-> pc, index |-> idx])

Fetch(policy) ==
    fetched' = Append(fetched, [list |-> pc, index |-> idx, image |-> image,
                                server |-> notaryServerURL(policy.Notary)])

Lookup(kind) == [kind |-> kind, list |-> pc, index |-> idx]

\* the loop body calls getBasicAuthForRegistry and returns on its error
GetBasicAuth == lookups' = Append(lookups, Lookup("secret"))

\* the loop body calls getBasicAuthForRegistry, then doesMatchPolicy
MatchPolicy == lookups' = lookups \o <<Lookup("secret"), Lookup("policy")>>

\* the credential lookup of the loop body succeeds
AuthOk ==
    \E auth \in AuthAnswers[pod.ImagePullSecrets] : auth.err = NoError

\* what a validation run leaves alone: its environment and the components
\* modelled on their own
Env == <<orig, whiteList, policyCache, trustServer, signerPolicies,
        authCall, parsing, cache, handler, meta, repo>>

\* faulty variant: the namespace whitelist is not consulted
CheckNamespace_noReturn ==
    /\ pc = "start"
    /\ pc' = firstList /\ idx' = 1 /\ result' = result
    /\ UNCHANGED <<pod, inspected, fetched, lookups, Env>>

CheckNamespace ==
    /\ pc = "start"
    /\ IF IsNamespaceWhiteListed(whiteList, pod.Namespace)
       THEN Return(TRUE, "", NoError)
       ELSE pc' = firstList /\ idx' = 1 /\ result' = result
    /\ UNCHANGED <<pod, inspected, fetched, lookups, Env>>

\* faulty variant: the "continue" of a whitelisted image is a return
SkipWhiteListed_returns ==
    /\ InLoop
    /\ imageWhiteListed
    /\ Inspect
    /\ ListValid
    /\ UNCHANGED <<pod, fetched, lookups, Env>>

SkipWhiteListed ==
    /\ InLoop
    /\ imageWhiteListed
    /\ Inspect
    /\ idx' = idx + 1
    /\ UNCHANGED <<pod, pc, result, fetched, lookups, Env>>

SecretLookupFails ==
    /\ InLoop
    /\ ~imageWhiteListed
    /\ \E auth \in AuthAnswers[pod.ImagePullSecrets] :
          /\ auth.err # NoError
          /\ Return(FALSE, "", auth.err)
    /\ Inspect
    /\ GetBasicAuth
    /\ UNCHANGED <<pod, fetched, Env>>

AcceptExempt ==
    /\ InLoop
    /\ ~imageWhiteListed
    /\ AuthOk
    /\ isExempt(policyCache[ref.host])
    /\ ContainerValid
    /\ Inspect
    /\ MatchPolicy
    /\ UNCHANGED <<pod, fetched, Env>>

AcceptSignCheckOff ==
    /\ InLoop
    /\ ~imageWhiteListed
    /\ AuthOk
    /\ isSignCheckOff(policyCache[ref.host])
    /\ ContainerValid
    /\ Inspect
    /\ MatchPolicy
    /\ UNCHANGED <<pod, fetched, Env>>

FetchFails ==
    /\ InLoop
    /\ ~imageWhiteListed
    /\ AuthOk
    /\ needsSignature(policyCache[ref.host])
    /\ fetchFailed(trustServer[ref.host])
    /\ Return(FALSE, "", trustServer[ref.host].err)
    /\ Inspect
    /\ MatchPolicy
    /\ Fetch(policyCache[ref.host])
    /\ UNCHANGED <<pod, Env>>

RejectNotSigned ==
    /\ InLoop
    /\ ~imageWhiteListed
    /\ AuthOk
    /\ needsSignature(policyCache[ref.host])
    /\ ~fetchFailed(trustServer[ref.host])
    /\ isNotSigned(trustServer[ref.host])
    /\ Return(FALSE, notSignedReason(image), NoError)
    /\ Inspect
    /\ MatchPolicy
    /\ Fetch(policyCache[ref.host])
    /\ UNCHANGED <<pod, Env>>

RejectDigestMismatch ==
    /\ InLoop
    /\ ~imageWhiteListed
    /\ AuthOk
    /\ needsSignature(policyCache[ref.host])
    /\ ~fetchFailed(trustServer[ref.host])
    /\ ~isNotSigned(trustServer[ref.host])
    /\ digestDiffers(ref.digest,
                     getDigest(ref.tag, trustServer[ref.host].signatures[1].SignedTags))
    /\ Return(FALSE, digestReason(image), NoError)
    /\ Inspect
    /\ MatchPolicy
    /\ Fetch(policyCache[ref.host])
    /\ UNCHANGED <<pod, Env>>

PinDigest ==
    /\ InLoop
    /\ ~imageWhiteListed
    /\ AuthOk
    /\ needsSignature(policyCache[ref.host])
    /\ ~fetchFailed(trustServer[ref.host])
    /\ ~isNotSigned(trustServer[ref.host])
    /\ LET digest == getDigest(ref.tag, trustServer[ref.host].signatures[1].SignedTags)
       IN  /\ ~digestDiffers(ref.digest, digest)
           /\ SetImage(pinnedImage(ref, digest))
    /\ ContainerValid
    /\ Inspect
    /\ MatchPolicy
    /\ Fetch(policyCache[ref.host])
    /\ UNCHANGED Env

RejectNoPolicy ==
    /\ InLoop
    /\ ~imageWhiteListed
    /\ AuthOk
    /\ noPolicy(policyCache[ref.host])
    /\ Return(FALSE, policyReason(image), NoError)
    /\ Inspect
    /\ MatchPolicy
    /\ UNCHANGED <<pod, fetched, Env>>

\* the list is exhausted: addDigestWhenImageValid returns (true, "", nil)
LoopEnd ==
    /\ Scanning
    /\ idx > Len(containers)
    /\ ListValid
    /\ UNCHANGED <<pod, inspected, fetched, lookups, Env>>

Next ==
    \/ CheckNamespace
    \/ SkipWhiteListed
    \/ SecretLookupFails
    \/ AcceptExempt
    \/ AcceptSignCheckOff
    \/ FetchFails
    \/ RejectNotSigned
    \/ RejectDigestMismatch
    \/ PinDigest
    \/ RejectNoPolicy
    \/ LoopEnd

Spec == Init /\ [][Next]_vars


----------------------------------------------------------------------------
(* vocabulary of the properties *)

Position(list, i) == [list |-> list, index |-> i]

imageAt(p, c) ==
    IF c.list = "init" THEN p.InitContainers[c.index] ELSE p.Containers[c.index]

\* every container of the submitted pod
Positions ==
    {Position("init", i) : i \in 1..Len(orig.InitContainers)} \cup
    {Position("regular", i) : i \in 1..Len(orig.Containers)}

InspectedSet == {inspected[k] : k \in 1..Len(inspected)}

FetchedSet == {Position(fetched[k].list, fetched[k].index) : k \in 1..Len(fetched)}

Done == pc = "done"

SecretErrors == {SecretError("s1"), SecretError("s2")}

\* the run ended in the loop body of container c
EndedAt(c) == Done /\ inspected # <<>> /\ inspected[Len(inspected)] = c

\* the run ended at container c with a failure (a rejection or an error)
FailedAt(c) == EndedAt(c) /\ ~result.valid

\* the loop body of c ran up to the registry policy lookup: c was inspected,
\* is not whitelisted and its credential lookup did not fail
Evaluated(c) ==
    /\ c \in InspectedSet
    /\ imageAt(orig, c) \notin WhiteListed[whiteList]
    /\ ~(EndedAt(c) /\ result.err \in SecretErrors)

policyOf(c) == policyCache[Parsed[imageAt(orig, c)].host]

trustOf(c) == trustServer[Parsed[imageAt(orig, c)].host]

\* the digest the trust summary of c signs for the tag of c
signedDigestOf(c) ==
    getDigest(Parsed[imageAt(orig, c)].tag, trustOf(c).signatures[1].SignedTags)

\* the verdict of container c taken on its own
PassesOnItsOwn(c) ==
    \/ imageAt(orig, c) \in WhiteListed[whiteList]
    \/ isExempt(policyOf(c))
    \/ isSignCheckOff(policyOf(c))
    \/ /\ needsSignature(policyOf(c))
       /\ ~fetchFailed(trustOf(c))
       /\ ~isNotSigned(trustOf(c))
       /\ ~digestDiffers(Parsed[imageAt(orig, c)].digest, signedDigestOf(c))

----------------------------------------------------------------------------
(* C1: for a pod whose namespace is not whitelisted, valid=true is returned
   only if every container of the init list and of the regular list passes
   its own check: the pod verdict is the AND of the container verdicts. *)
C1_PodVerdictIsConjunction ==
    (/\ Done
     /\ ~IsNamespaceWhiteListed(whiteList, orig.Namespace)
     /\ result.valid)
    => \A c \in Positions : PassesOnItsOwn(c)

(* C2: every container accepted on the signature path carries the image
   host/name:tag@sha256:<digest>, <digest> being the non-empty digest the
   trust summary signs for its tag. *)
C2_SignaturePathPinsDigest ==
    \A c \in FetchedSet :
        ~FailedAt(c) =>
            /\ signedDigestOf(c) # ""
            /\ imageAt(pod, c) =
                   LET r == Parsed[imageAt(orig, c)]
                   IN  r.host \o "/" \o r.name \o ":" \o r.tag \o "@sha256:" \o
                       signedDigestOf(c)

(* C3: a container whose trust summary is present while a signer policy
   exists for the namespace and no authorized signer key matches makes the
   pod rejected, with the reason text of an unsigned image. *)
C3_UnauthorizedSignerRejected ==
    \A c \in FetchedSet :
        (/\ ~fetchFailed(trustOf(c))
         /\ ~isNotSigned(trustOf(c))
         /\ Len(signerPolicies) # 0
         /\ ~hasMatchedSigner(signerPolicies, trustOf(c).signatures))
        => /\ FailedAt(c)
           /\ result.err = NoError
           /\ result.reason = notSignedReason(imageAt(orig, c))

\* the texts of the rejections name the image and what is wrong with it
PolicyReasonNamesImageAndPolicy ==
    \A i \in Images :
        /\ Contains(policyReason(i), i)
        /\ Contains(policyReason(i), "registry security policy")

DigestReasonNamesImageAndDigest ==
    \A i \in Images :
        /\ Contains(digestReason(i), i)
        /\ Contains(digestReason(i), "digest is different")

ReasonsOf(i) == {policyReason(i), digestReason(i), notSignedReason(i)}

ReasonsNameImage ==
    \A i \in Images : \A r \in ReasonsOf(i) : Contains(r, i)

(* C4: a non-whitelisted container whose registry host matches no registry
   security policy makes the run return valid=false, a nil error and a
   reason naming the image and the missing registry security policy; the
   trust client is not invoked for it and its image is unchanged. *)
C4_NoPolicyRejects ==
    \A c \in InspectedSet :
        (Evaluated(c) /\ ~policyOf(c).valid)
        => /\ FailedAt(c)
           /\ result.err = NoError
           /\ result.reason # ""
           /\ result.reason = policyReason(imageAt(orig, c))
           /\ PolicyReasonNamesImageAndPolicy
           /\ c \notin FetchedSet
           /\ imageAt(pod, c) = imageAt(orig, c)

C4_Witness ==
    \E c \in InspectedSet :
        /\ Evaluated(c)
        /\ ~policyOf(c).valid
        /\ FailedAt(c)
        /\ result.reason = policyReason(imageAt(orig, c))
        /\ c.list = "regular" /\ c.index = 2


\* the policy of c names a registry and requires signatures
RequiresSigning(c) ==
    policyOf(c).valid /\ policyOf(c).Registry # "" /\ policyOf(c).SignCheck

\* FetchSignature returns a trust summary for c
SummaryPresent(c) == trustOf(c).err = NoError /\ trustOf(c).signatures # <<>>

Unchanged(c) == imageAt(pod, c) = imageAt(orig, c)

(* C5 as stated: a matching policy with no notary server configured accepts
   the container unconditionally, without a trust-server request and without
   touching its image, whatever signCheckRequired is. *)
C5_NoNotaryAccepts ==
    \A c \in InspectedSet :
        (Evaluated(c) /\ policyOf(c).valid /\ policyOf(c).Notary = "")
        => ~FailedAt(c) /\ c \notin FetchedSet /\ Unchanged(c)

(* C5 amended: a policy with an empty registry field accepts the container
   unconditionally (no trust-server request, image unchanged) whatever
   signCheckRequired is; a policy that names a registry but no notary server
   and requires signatures has the trust client invoked against the default
   notary server. *)
C5_EmptyRegistryAccepts ==
    \A c \in InspectedSet :
        Evaluated(c) =>
            /\ (policyOf(c).valid /\ policyOf(c).Registry = "")
               => ~FailedAt(c) /\ c \notin FetchedSet /\ Unchanged(c)
            /\ (RequiresSigning(c) /\ policyOf(c).Notary = "")
               => \E k \in 1..Len(fetched) :
                      /\ Position(fetched[k].list, fetched[k].index) = c
                      /\ fetched[k].server = DefaultNotaryServer

C5_Witness ==
    \E c \in InspectedSet :
        /\ Evaluated(c)
        /\ policyOf(c).valid /\ policyOf(c).Registry = "" /\ policyOf(c).SignCheck
        /\ Done /\ result.valid
        /\ c \notin FetchedSet

(* C6: a matching policy with signCheckRequired=false accepts the container
   without invoking the trust client for it and without modifying its image. *)
C6_SignCheckOffAccepts ==
    \A c \in InspectedSet :
        (Evaluated(c) /\ policyOf(c).valid /\ ~policyOf(c).SignCheck)
        => ~FailedAt(c) /\ c \notin FetchedSet /\ Unchanged(c)

C6_Witness ==
    \E c \in InspectedSet :
        /\ Evaluated(c)
        /\ policyOf(c).valid /\ policyOf(c).Registry # "" /\ ~policyOf(c).SignCheck
        /\ Done /\ result.valid
        /\ fetched = <<>>

(* C7: a nil trust summary with no error, for a container whose policy
   requires signing, makes the run return valid=false, a nil error and the
   reason that the image is not signed; the image is unchanged. *)
C7_NilSummaryRejects ==
    \A c \in InspectedSet :
        (/\ Evaluated(c)
         /\ RequiresSigning(c)
         /\ trustOf(c).err = NoError
         /\ trustOf(c).signatures = <<>>)
        => /\ FailedAt(c)
           /\ result.err = NoError
           /\ result.reason = "Image '" \o imageAt(orig, c) \o "' is not signed"
           /\ Unchanged(c)

C7_Witness ==
    \E c \in InspectedSet :
        /\ Evaluated(c)
        /\ RequiresSigning(c)
        /\ trustOf(c) = Unsigned
        /\ FailedAt(c)
        /\ c \in FetchedSet

(* C8: a failed trust-metadata fetch makes the run return valid=false with
   that error and an empty reason: never the 'not signed' rejection, never
   an acceptance. *)
C8_FetchErrorPropagates ==
    \A c \in InspectedSet :
        (/\ Evaluated(c)
         /\ RequiresSigning(c)
         /\ trustOf(c).err # NoError)
        => /\ FailedAt(c)
           /\ result.err = trustOf(c).err
           /\ result.reason = ""
           /\ Unchanged(c)

C8_Witness ==
    \E c \in InspectedSet :
        /\ Evaluated(c)
        /\ RequiresSigning(c)
        /\ trustOf(c).err = FetchError
        /\ FailedAt(c)
        /\ result.err = FetchError

(* C9: an explicit digest in the submitted image that differs from the
   digest resolved from the trust summary for its tag makes the pod rejected
   with the digest-mismatch reason and a nil error; the image stays exactly
   as submitted. *)
C9_DigestMismatchRejects ==
    \A c \in InspectedSet :
        (/\ Evaluated(c)
         /\ RequiresSigning(c)
         /\ SummaryPresent(c)
         /\ Parsed[imageAt(orig, c)].digest # ""
         /\ Parsed[imageAt(orig, c)].digest # signedDigestOf(c))
        => /\ FailedAt(c)
           /\ result.err = NoError
           /\ result.reason = digestReason(imageAt(orig, c))
           /\ DigestReasonNamesImageAndDigest
           /\ Unchanged(c)

C9_Witness ==
    \E c \in InspectedSet :
        /\ Evaluated(c)
        /\ RequiresSigning(c)
        /\ SummaryPresent(c)
        /\ Parsed[imageAt(orig, c)].digest = "d2"
        /\ signedDigestOf(c) = "d1"
        /\ FailedAt(c)

\* c comes before d in the order init containers, then regular containers
Before(c, d) ==
    \/ c.list = "init" /\ d.list = "regular"
    \/ c.list = d.list /\ c.index < d.index

(* C10: containers are evaluated in order, init containers before regular
   ones, and evaluation stops at the first failing container: no container
   is inspected after one that fails, the containers after the failing one
   keep their images, and a rejection names the failing container's
   original image. *)
C10_InOrderStopAtFirstFailure ==
    /\ \A k, l \in 1..Len(inspected) :
           k < l => Before(inspected[k], inspected[l])
    /\ \A k \in 1..(Len(inspected) - 1) : PassesOnItsOwn(inspected[k])
    /\ FetchedSet \subseteq InspectedSet
    /\ pod # orig => \A c \in Positions : c \notin InspectedSet => Unchanged(c)
    /\ (Done /\ ~result.valid) => inspected # <<>>
    /\ \A c \in InspectedSet :
           FailedAt(c) =>
               /\ Unchanged(c)
               /\ \A d \in Positions :
                      Before(c, d) => d \notin InspectedSet /\ Unchanged(d)
               /\ result.err = NoError =>
                      /\ result.reason \in ReasonsOf(imageAt(orig, c))
                      /\ ReasonsNameImage

C10_Witness ==
    /\ FailedAt(Position("regular", 1))
    /\ result.err = NoError
    /\ Len(orig.InitContainers) = 1
    /\ ~Unchanged(Position("init", 1))
    /\ Len(orig.Containers) = 2

LookedUpSet == {Position(lookups[k].list, lookups[k].index) : k \in 1..Len(lookups)}

(* C11: for a pod whose namespace is whitelisted the run returns
   (true, "", nil) immediately: no container is inspected, no secret, policy
   or trust-server lookup is made and no image of the pod is modified. *)
C11_WhiteListedNamespaceAccepts ==
    IsNamespaceWhiteListed(whiteList, orig.Namespace) =>
        /\ pc \in {"start", "done"}
        /\ inspected = <<>>
        /\ lookups = <<>>
        /\ fetched = <<>>
        /\ pod = orig
        /\ Done => result = [valid |-> TRUE, reason |-> "", err |-> NoError]

C11_Witness ==
    /\ Done
    /\ orig.Namespace = "kube-system"
    /\ whiteList.byImages = <<>>
    /\ orig.Containers = <<"r/a:v1", "q/b:v2">>
    /\ ~policyCache["r"].valid
    /\ result.valid

(* C12: a container whose image is whitelisted is skipped (no policy lookup,
   no trust fetch, image unchanged) even when the policy of its registry
   requires signing, and skipping it does not end the scan: a container after
   it is left uninspected only when the scan ended at a container that was
   evaluated in between. *)
C12_WhiteListedImageSkipped ==
    \A c \in InspectedSet :
        imageAt(orig, c) \in WhiteListed[whiteList] =>
            /\ c \notin LookedUpSet
            /\ c \notin FetchedSet
            /\ Unchanged(c)
            /\ Done =>
                   \A d \in Positions :
                       (Before(c, d) /\ d \notin InspectedSet) =>
                           \E e \in InspectedSet :
                               /\ Before(c, e) /\ Before(e, d)
                               /\ imageAt(orig, e) \notin WhiteListed[whiteList]

C12_Witness ==
    \E c \in InspectedSet :
        /\ imageAt(orig, c) \in WhiteListed[whiteList]
        /\ RequiresSigning(c)
        /\ trustOf(c) = Unsigned
        /\ c = Position("regular", 1)
        /\ FailedAt(Position("regular", 2))
        /\ imageAt(orig, Position("regular", 2)) = "q/b:v2"

----------------------------------------------------------------------------
(* getBasicAuthForRegistry, one iteration of its loop per step *)

MaxSecrets == 2

SecretNames == {"s1", "s2", "s3"}

ValidatorOff ==
    /\ pod = Off /\ orig = Off /\ whiteList = Off /\ policyCache = Off
    /\ trustServer = Off /\ signerPolicies = Off /\ pc = Off /\ idx = 0
    /\ result = Off /\ inspected = <<>> /\ fetched = <<>> /\ lookups = <<>>

AuthInit ==
    \E pullSecrets \in SeqsOf(SecretNames, 0, MaxSecrets) :
    \E store \in [SecretNames -> SecretAnswers] :
        authCall = [pullSecrets |-> pullSecrets, store |-> store, i |-> 1,
                got |-> <<>>, pc |-> "loop", basicAuth |-> "", err |-> NoError]

\* what a call of getBasicAuthForRegistry leaves alone
NotAuth == <<validatorVars, parsing, cache, handler, meta, repo>>

InitAuth ==
    /\ ValidatorOff
    /\ AuthInit
    /\ parsing = ParseOff
    /\ cache = CacheOff
    /\ handler = HandlerOff
    /\ meta = MetaOff
    /\ repo = RepoOff

\* the pull secret of the current iteration
pullSecret == authCall.pullSecrets[authCall.i]

AuthInLoop == authCall.pc = "loop" /\ authCall.i <= Len(authCall.pullSecrets)

\* h.client.CoreV1().Secrets(namespace).Get(..., pullSecret.Name, ...)
GetSecret == Append(authCall.got, pullSecret)

AuthReturn(basicAuth, err) ==
    authCall' = [authCall EXCEPT !.pc = "done", !.got = GetSecret,
                         !.basicAuth = basicAuth, !.err = err]

AuthContinue == authCall' = [authCall EXCEPT !.i = authCall.i + 1, !.got = GetSecret]

\* faulty variant: a secret that cannot be fetched is passed over
GetSecretFails_continues ==
    /\ AuthInLoop
    /\ authCall.store[pullSecret] = "missing"
    /\ AuthContinue
    /\ UNCHANGED NotAuth

\* the secret cannot be fetched: return "", err
GetSecretFails ==
    /\ AuthInLoop
    /\ authCall.store[pullSecret] = "missing"
    /\ AuthReturn("", SecretError(pullSecret))
    /\ UNCHANGED NotAuth

\* basicAuth == "": continue
NoHostCredential ==
    /\ AuthInLoop
    /\ authCall.store[pullSecret] = "nocred"
    /\ AuthContinue
    /\ UNCHANGED NotAuth

\* return basicAuth, nil
CredentialFound ==
    /\ AuthInLoop
    /\ authCall.store[pullSecret] = "cred"
    /\ AuthReturn("auth-" \o pullSecret, NoError)
    /\ UNCHANGED NotAuth

\* the loop is over: return "", nil
NoSecretLeft ==
    /\ authCall.pc = "loop" /\ authCall.i > Len(authCall.pullSecrets)
    /\ authCall' = [authCall EXCEPT !.pc = "done"]
    /\ UNCHANGED NotAuth

NextAuth ==
    \/ GetSecretFails
    \/ NoHostCredential
    \/ CredentialFound
    \/ NoSecretLeft

SpecAuth == InitAuth /\ [][NextAuth]_vars

AuthDone == authCall.pc = "done"

\* positions of the pull secrets that exist and carry a credential for the host
Usable == {k \in 1..Len(authCall.pullSecrets) : authCall.store[authCall.pullSecrets[k]] = "cred"}

\* positions of the pull secrets that cannot be fetched
Missing == {k \in 1..Len(authCall.pullSecrets) : authCall.store[authCall.pullSecrets[k]] = "missing"}

Least(S) == CHOOSE k \in S : \A j \in S : k <= j

(* C13 as stated: the credential of the first pull secret that exists and
   carries a credential for the host is returned, secrets that do not exist
   or carry none being passed over; with no usable secret the result is the
   empty credential and no error. *)
C13_FirstUsableSecretWins ==
    AuthDone =>
        /\ authCall.err = NoError
        /\ authCall.basicAuth =
               IF Usable = {} THEN ""
               ELSE "auth-" \o authCall.pullSecrets[Least(Usable)]

(* C13 amended: the pull secrets are fetched in declared order up to the
   first one that cannot be fetched or that carries a credential for the
   host; secrets that exist without a credential for the host are passed
   over. A secret that cannot be fetched ends the resolution with an error
   naming it and an empty credential; otherwise the credential of the first
   usable secret is returned, or the empty credential and no error when
   there is none. *)
C13_FirstUsableOrMissingSecretDecides ==
    AuthDone =>
        LET stops == Usable \cup Missing
            last  == IF stops = {} THEN Len(authCall.pullSecrets) ELSE Least(stops)
        IN  /\ authCall.got = SubSeq(authCall.pullSecrets, 1, last)
            /\ IF stops = {}
               THEN authCall.basicAuth = "" /\ authCall.err = NoError
               ELSE IF last \in Missing
               THEN /\ authCall.basicAuth = ""
                    /\ authCall.err = "couldn't get secret named " \o authCall.pullSecrets[last]
               ELSE /\ authCall.basicAuth = "auth-" \o authCall.pullSecrets[last]
                    /\ authCall.err = NoError
            /\ [basicAuth |-> authCall.basicAuth, err |-> authCall.err] =
                   getBasicAuthForRegistry(authCall.pullSecrets, authCall.store)

C13_Witness ==
    /\ AuthDone
    /\ authCall.pullSecrets = <<"s1", "s2">>
    /\ authCall.store["s1"] = "nocred"
    /\ authCall.store["s2"] = "cred"
    /\ authCall.basicAuth = "auth-s2"
    /\ authCall.got = <<"s1", "s2">>

----------------------------------------------------------------------------
(* getImageInfo on its own *)

MaxSegments == 2

RegistryHosts == {"myreg.example.com", "r"}

Segments == {"nginx", "team", "app"}

Tags == {"v2"}

RECURSIVE Join(_, _)
Join(segs, sep) ==
    IF Len(segs) = 1 THEN segs[1] ELSE segs[1] \o sep \o Join(Tail(segs), sep)

\* repository names of one to MaxSegments path segments
RepositoryNames == {Join(segs, "/") : segs \in SeqsOf(Segments, 1, MaxSegments)}

\* the reference host/name:tag; host "" and tag "" stand for an absent part
Reference(host, name, tag) ==
    (IF host = "" THEN "" ELSE host \o "/") \o name \o
    (IF tag = "" THEN "" ELSE ":" \o tag)

\* what a call of getImageInfo leaves alone
NotParse == <<validatorVars, authCall, cache, handler, meta, repo>>

InitParse ==
    /\ ValidatorOff
    /\ authCall = AuthOff
    /\ cache = CacheOff
    /\ handler = HandlerOff
    /\ meta = MetaOff
    /\ repo = RepoOff
    /\ \E host \in RegistryHosts \cup {""} :
       \E name \in RepositoryNames :
       \E tag \in Tags \cup {""} :
           parsing = [pc |-> "call", host |-> host, name |-> name, tag |-> tag,
                      image |-> Reference(host, name, tag),
                      info |-> [registry |-> "", name |-> "", tag |-> ""]]

GetImageInfo ==
    /\ parsing.pc = "call"
    /\ parsing' = [parsing EXCEPT !.pc = "done", !.info = getImageInfo(parsing.image)]
    /\ UNCHANGED NotParse

NextParse == GetImageInfo

SpecParse == InitParse /\ [][NextParse]_vars

(* C14: a reference whose first path segment is a registry host parses to
   that host, the repository name being everything after it up to the tag
   (further "/" segments included) and the tag the text after ":" or
   "latest"; a reference with no "/" gets the default public-registry host.
   "myreg.example.com/team/app:v2" parses to ("myreg.example.com",
   "team/app", "v2") and "nginx" to ("docker.io", "nginx", "latest"). *)
C14_ParseSplitsHostNameTag ==
    parsing.pc = "done" =>
        /\ parsing.host # "" =>
               parsing.info = [registry |-> parsing.host,
                               name     |-> parsing.name,
                               tag      |-> IF parsing.tag = "" THEN "latest"
                                            ELSE parsing.tag]
        /\ ~Contains(parsing.image, "/") =>
               parsing.info = [registry |-> "docker.io",
                               name     |-> parsing.name,
                               tag      |-> IF parsing.tag = "" THEN "latest"
                                            ELSE parsing.tag]
        /\ parsing.image = "myreg.example.com/team/app:v2" =>
               parsing.info = [registry |-> "myreg.example.com",
                               name |-> "team/app", tag |-> "v2"]
        /\ parsing.image = "nginx" =>
               parsing.info = [registry |-> "docker.io",
                               name |-> "nginx", tag |-> "latest"]

----------------------------------------------------------------------------
(* the whitelist cache read by concurrent validation runs while it is
   refreshed: an immutable snapshot behind a handle that a refresh swaps *)

MaxRefreshes == 2

\* the validation runs that read the cache concurrently
Runs == {"run1", "run2"}

\* the image whitelists the cluster can hold
ClusterWhiteLists == {<<"q/b", "r/a">>, <<"r/x", "q/y">>}

NotReading == [pc |-> "idle", snap |-> 0, pos |-> 0, seen |-> <<>>, from |-> 0,
               swaps |-> 0, image |-> "", found |-> FALSE]

NotRefreshing == [pc |-> "idle", buf |-> 0, pos |-> 0, source |-> <<>>]

\* what the cache leaves alone
NotCache == <<validatorVars, authCall, parsing, handler, meta, repo>>

InitCache ==
    /\ ValidatorOff
    /\ authCall = AuthOff
    /\ parsing = ParseOff
    /\ handler = HandlerOff
    /\ meta = MetaOff
    /\ repo = RepoOff
    /\ \E wl \in ClusterWhiteLists :
           cache = [pc        |-> "on",
                    heap      |-> <<wl>>,
                    handle    |-> 1,
                    published |-> <<wl>>,
                    refreshes |-> 0,
                    refresh   |-> NotRefreshing,
                    reader    |-> [r \in Runs |-> NotReading]]

CacheOn == cache.pc = "on"

\* a validation run starts IsImageWhiteListed: it loads the handle once
BeginLookup(r) ==
    /\ CacheOn
    /\ cache.reader[r].pc = "idle"
    /\ \E img \in {"r/a:v1", "q/y:v1"} :
           cache' = [cache EXCEPT !.reader[r] =
                        [pc |-> "reading", snap |-> cache.handle, pos |-> 1,
                         seen |-> <<>>, from |-> Len(cache.published),
                         swaps |-> 0, image |-> img, found |-> FALSE]]
    /\ UNCHANGED NotCache

\* the run reads the next entry of the snapshot it loaded
ReadEntry(r) ==
    /\ CacheOn
    /\ cache.reader[r].pc = "reading"
    /\ cache.reader[r].pos <= Len(cache.heap[cache.reader[r].snap])
    /\ cache' = [cache EXCEPT
                    !.reader[r].seen =
                        Append(@, cache.heap[cache.reader[r].snap][cache.reader[r].pos]),
                    !.reader[r].pos = @ + 1]
    /\ UNCHANGED NotCache

\* the run has read the whole snapshot and answers from what it read
EndLookup(r) ==
    /\ CacheOn
    /\ cache.reader[r].pc = "reading"
    /\ cache.reader[r].pos > Len(cache.heap[cache.reader[r].snap])
    /\ cache' = [cache EXCEPT
                    !.reader[r].pc = "done",
                    !.reader[r].found =
                        IsImageWhiteListed([byImages |-> cache.reader[r].seen,
                                            byNamespaces |-> <<>>],
                                           cache.reader[r].image)]
    /\ UNCHANGED NotCache

\* faulty variant: the refresh rebuilds the live snapshot in place
BeginRefresh_inPlace ==
    /\ CacheOn
    /\ cache.refresh.pc = "idle"
    /\ cache.refreshes < MaxRefreshes
    /\ \E wl \in ClusterWhiteLists :
           cache' = [cache EXCEPT
                        !.heap[cache.handle] = <<>>,
                        !.refresh = [pc |-> "building", buf |-> cache.handle,
                                     pos |-> 1, source |-> wl]]
    /\ UNCHANGED NotCache

\* a refresh starts: it reads the cluster and allocates a new snapshot
BeginRefresh ==
    /\ CacheOn
    /\ cache.refresh.pc = "idle"
    /\ cache.refreshes < MaxRefreshes
    /\ \E wl \in ClusterWhiteLists :
           cache' = [cache EXCEPT
                        !.heap = Append(@, <<>>),
                        !.refresh = [pc |-> "building", buf |-> Len(cache.heap) + 1,
                                     pos |-> 1, source |-> wl]]
    /\ UNCHANGED NotCache

\* the refresh fills the next entry of the snapshot it is building
BuildEntry ==
    /\ CacheOn
    /\ cache.refresh.pc = "building"
    /\ cache.refresh.pos <= Len(cache.refresh.source)
    /\ cache' = [cache EXCEPT
                    !.heap[cache.refresh.buf] =
                        Append(@, cache.refresh.source[cache.refresh.pos]),
                    !.refresh.pos = @ + 1]
    /\ UNCHANGED NotCache

\* the refresh publishes the snapshot it built: one store of the handle
SwapSnapshot ==
    /\ CacheOn
    /\ cache.refresh.pc = "building"
    /\ cache.refresh.pos > Len(cache.refresh.source)
    /\ cache' = [cache EXCEPT
                    !.handle = cache.refresh.buf,
                    !.published = Append(@, cache.heap[cache.refresh.buf]),
                    !.refreshes = @ + 1,
                    !.refresh = NotRefreshing,
                    !.reader = [r \in Runs |->
                                   IF cache.reader[r].pc = "reading"
                                   THEN [cache.reader[r] EXCEPT !.swaps = @ + 1]
                                   ELSE cache.reader[r]]]
    /\ UNCHANGED NotCache

NextCache ==
    \/ \E r \in Runs : BeginLookup(r)
    \/ \E r \in Runs : ReadEntry(r)
    \/ \E r \in Runs : EndLookup(r)
    \/ BeginRefresh
    \/ BuildEntry
    \/ SwapSnapshot

SpecCache == InitCache /\ [][NextCache]_vars

\* s is an initial segment of t
IsPrefix(s, t) == Len(s) <= Len(t) /\ SubSeq(t, 1, Len(s)) = s

(* C15: a refresh replaces the cached snapshot in one atomic step: what a
   lookup that overlaps refreshes has read is at every moment part of one
   snapshot that was live during the lookup, and its answer is the answer
   computed from the whole of that snapshot, never from a partially rebuilt
   one, for any interleaving of runs and refreshes. *)
C15_LookupSeesOneSnapshot ==
    \A r \in Runs :
        cache.reader[r].pc \in {"reading", "done"} =>
            \E k \in cache.reader[r].from..Len(cache.published) :
                /\ IsPrefix(cache.reader[r].seen, cache.published[k])
                /\ cache.reader[r].pc = "done" =>
                       /\ cache.reader[r].seen = cache.published[k]
                       /\ cache.reader[r].found =
                              IsImageWhiteListed([byImages |-> cache.published[k],
                                                  byNamespaces |-> <<>>],
                                                 cache.reader[r].image)

C15_Witness ==
    \E r \in Runs :
        /\ cache.reader[r].pc = "done"
        /\ cache.reader[r].swaps >= 1
        /\ cache.published[cache.reader[r].from] # cache.published[Len(cache.published)]
        /\ cache.reader[r].seen = cache.published[cache.reader[r].from]
        /\ cache.reader[r].image = "r/a:v1"
        /\ cache.reader[r].found

----------------------------------------------------------------------------
(* DockerHandler.isSignedImage: hasMatchedSigner, then getDigest *)

MaxPolicies == 1

SignerNames == {"alice", "bob", "carol"}

\* the SignerPolicy records a namespace can hold
SignerPolicyRecords == [Signers : SeqsOf(SignerNames, 1, 1)]

\* the signed-tag rows a trust inspection can report
InspectedSignedTags ==
    SignedTagLists \cup
    {<<>>, <<Row("v1", "d1"), Row("v2", "d3"), Row("v1", "d2")>>}

\* getSignatures: no summary, or one summary
InspectedSignatures ==
    {<<>>} \cup
    {<<[SignedTags |-> rows, RepoAdminKey |-> key]>> :
        rows \in InspectedSignedTags, key \in {"k1", "k3"}}

\* what a call of isSignedImage leaves alone
NotHandler == <<validatorVars, authCall, parsing, cache, meta, repo>>

InitHandler ==
    /\ ValidatorOff
    /\ authCall = AuthOff
    /\ parsing = ParseOff
    /\ cache = CacheOff
    /\ meta = MetaOff
    /\ repo = RepoOff
    /\ \E img \in {"r/a:v1", "r/a"} :
       \E policies \in SeqsOf(SignerPolicyRecords, 0, MaxPolicies) :
       \E signatures \in InspectedSignatures :
       \E err \in {NoError, "invalid character"} :
           handler = [pc |-> "call", image |-> img, signerPolicies |-> policies,
                      signatures |-> signatures, err |-> err,
                      valid |-> FALSE, digest |-> ""]

HandlerReturn(valid, digest) ==
    handler' = [handler EXCEPT !.pc = "done", !.valid = valid, !.digest = digest]

\* getSignatures fails: return false, ""
SignaturesUnreadable ==
    /\ handler.pc = "call"
    /\ handler.err # NoError
    /\ HandlerReturn(FALSE, "")
    /\ UNCHANGED NotHandler

\* h.hasMatchedSigner(signatures): return true, getDigest(image, signatures)
SignerMatched ==
    /\ handler.pc = "call"
    /\ handler.err = NoError
    /\ hasMatchedSigner(handler.signerPolicies, handler.signatures)
    /\ HandlerReturn(TRUE, getDigest(getImageInfo(handler.image).tag,
                                      handler.signatures[1].SignedTags))
    /\ UNCHANGED NotHandler

\* return false, ""
SignerNotMatched ==
    /\ handler.pc = "call"
    /\ handler.err = NoError
    /\ ~hasMatchedSigner(handler.signerPolicies, handler.signatures)
    /\ HandlerReturn(FALSE, "")
    /\ UNCHANGED NotHandler

NextHandler ==
    \/ SignaturesUnreadable
    \/ SignerMatched
    \/ SignerNotMatched

SpecHandler == InitHandler /\ [][NextHandler]_vars

\* the summary read for the image has signed tags
HasSignedTags ==
    handler.signatures # <<>> /\ handler.signatures[1].SignedTags # <<>>

\* the key IDs owned by the signers the policy records of the namespace name
AuthorizedKeys ==
    UNION {{SignerKeys[handler.signerPolicies[p].Signers[n]][t] :
               t \in 1..Len(SignerKeys[handler.signerPolicies[p].Signers[n]])} :
           p \in 1..Len(handler.signerPolicies),
           n \in 1..1}

(* C16: the signer-policy match is true exactly when the trust summary is
   non-empty (has signed tags) and either no signer-policy record exists for
   the namespace or the administrative key of the summary is a key ID owned
   by a signer named in a policy record of the namespace; an empty summary
   is rejected whatever the policy. *)
C16_MatchRequiresSignedTags ==
    (handler.pc = "done" /\ handler.err = NoError) =>
        handler.valid =
            (/\ HasSignedTags
             /\ \/ handler.signerPolicies = <<>>
                \/ handler.signatures[1].RepoAdminKey \in AuthorizedKeys)

\* the signed-tag rows of the summary the digest is taken from
SummaryRows == handler.signatures[1].SignedTags

\* the rows signed for the tag of the image
RowsForTag ==
    {k \in 1..Len(SummaryRows) :
        SummaryRows[k].SignedTag = getImageInfo(handler.image).tag}

Greatest(S) == CHOOSE k \in S : \A j \in S : j <= k

(* C19 as stated: when the trust summary holds more than one signed-tag row
   for the requested tag, the digest selected for pinning is the digest of
   the first such row. *)
C19_FirstRowForTagWins ==
    (handler.pc = "done" /\ handler.valid /\ Cardinality(RowsForTag) > 1) =>
        handler.digest = SummaryRows[Least(RowsForTag)].Digest

(* C19 amended: when the trust summary holds more than one signed-tag row
   for the requested tag, the digest selected for pinning is the digest of
   the last such row in the order of the summary's rows. *)
C19_LastRowForTagWins ==
    (handler.pc = "done" /\ handler.valid /\ RowsForTag # {}) =>
        handler.digest = SummaryRows[Greatest(RowsForTag)].Digest

C19_Witness ==
    /\ handler.pc = "done"
    /\ handler.valid
    /\ handler.image = "r/a:v1"
    /\ SummaryRows = <<Row("v1", "d1"), Row("v2", "d3"), Row("v1", "d2")>>
    /\ handler.digest = "d2"

----------------------------------------------------------------------------
(* notaryRepo.GetSignedMetadata and matchReleasedSignatures *)

MaxTargets == 3

CanonicalTargetsRole == "targets"

ReleasesRole == "targets/releases"

releasedRoleName == "Repo Admin"

\* the roles that sign targets of the repository
TargetRoles == {"targets", "targets/releases", "targets/alice", "targets/bob"}

\* trustTagKey: tag and hex digest of a target
TargetKeys ==
    {[SignedTag |-> "v1", Digest |-> "d1"],
     [SignedTag |-> "v1", Digest |-> "d2"],
     [SignedTag |-> "v2", Digest |-> "d1"]}

\* client.TargetSignedStruct: the role and the target it signed
SignedTargets == [Role : TargetRoles, Key : TargetKeys]

\* answers of GetAllTargetMetadataByName: a role signs a tag at most once
TargetLists ==
    {ts \in SeqsOf(SignedTargets, 0, MaxTargets) :
        \A i, j \in 1..Len(ts) :
            (i # j /\ ts[i].Role = ts[j].Role) =>
                ts[i].Key.SignedTag # ts[j].Key.SignedTag}

\* faulty variant: only the top-level targets role counts as released
isReleasedTarget_targetsOnly(role) == role = CanonicalTargetsRole

isReleasedTarget(role) == role = CanonicalTargetsRole \/ role = ReleasesRole

\* strings.TrimPrefix
TrimPrefix(s, prefix) ==
    IF HasPrefix(s, prefix) THEN SubSeq(s, Len(prefix) + 1, Len(s)) ELSE s

notaryRoleToSigner(tufRole) ==
    IF isReleasedTarget(tufRole)
    THEN releasedRoleName
    ELSE TrimPrefix(tufRole, "targets/")

\* first pass: the keys signed into targets or targets/releases
releasedKeys(allTargets) ==
    {allTargets[k].Key :
        k \in {j \in 1..Len(allTargets) : isReleasedTarget(allTargets[j].Role)}}

\* second pass for one released key, from target i on: the signers appended
RECURSIVE signersFrom(_, _, _)
signersFrom(allTargets, targetKey, i) ==
    IF i > Len(allTargets)
    THEN <<>>
    ELSE (IF /\ allTargets[i].Key = targetKey
             /\ ~isReleasedTarget(allTargets[i].Role)
          THEN <<notaryRoleToSigner(allTargets[i].Role)>>
          ELSE <<>>) \o signersFrom(allTargets, targetKey, i + 1)

\* the map releasedTargetRows after both passes
releasedTargetRows(allTargets) ==
    [key \in releasedKeys(allTargets) |-> signersFrom(allTargets, key, 1)]

\* sortorder.NaturalLess on the tags of the model
TagRank == [v1 |-> 1, v2 |-> 2]

NaturalLess(a, b) == TagRank[a] < TagRank[b]

\* the orders in which the keys of the map can be left by the iteration over
\* the map followed by sort.Slice on the tag
SortedKeys(keys) ==
    {seq \in [1..Cardinality(keys) -> keys] :
        \A i, j \in 1..Cardinality(keys) :
            i < j => /\ seq[i] # seq[j]
                     /\ ~NaturalLess(seq[j].SignedTag, seq[i].SignedTag)}

\* the slices matchReleasedSignatures can return
matchReleasedSignatures(allTargets) ==
    LET rowsOf == releasedTargetRows(allTargets)
    IN  {[k \in 1..Len(seq) |->
             [SignedTag |-> seq[k].SignedTag, Digest |-> seq[k].Digest,
              Signers |-> rowsOf[seq[k]]]] :
         seq \in SortedKeys(DOMAIN rowsOf)}

\* GetSignedMetadata: a row without signers is attributed to the repo admin
addRepoAdmin(signatureRows) ==
    [k \in 1..Len(signatureRows) |->
        IF Len(signatureRows[k].Signers) = 0
        THEN [signatureRows[k] EXCEPT !.Signers = <<releasedRoleName>>]
        ELSE signatureRows[k]]

\* answer of ListRoles
AdminRoles ==
    <<[Name |-> "snapshot", KeyIDs |-> <<"k8">>],
      [Name |-> "targets", KeyIDs |-> <<"k1">>],
      [Name |-> "root", KeyIDs |-> <<"k0">>]>>

\* answers of GetDelegationRoles
DelegationRoleLists ==
    {<<>>,
     <<[Name |-> "targets/releases", KeyIDs |-> <<"k9">>],
       [Name |-> "targets/alice", KeyIDs |-> <<"k1">>],
       [Name |-> "targets/bob", KeyIDs |-> <<"k2">>]>>}

\* getDelegationRoleToKeyMap, as the set of its (signer, key IDs) entries
getDelegationRoleToKeyMap(rawDelegationRoles) ==
    {[Name |-> notaryRoleToSigner(rawDelegationRoles[k].Name),
      Keys |-> rawDelegationRoles[k].KeyIDs] :
        k \in {j \in 1..Len(rawDelegationRoles) :
                  rawDelegationRoles[j].Name \notin
                      {ReleasesRole, "root", "snapshot", "targets", "timestamp"}}}

\* the administrative roles shown: root as "Root", targets as "Repository"
adminSigners(adminRoles) ==
    {[Name |-> IF adminRoles[k].Name = "root" THEN "Root" ELSE "Repository",
      Keys |-> adminRoles[k].KeyIDs] :
        k \in {j \in 1..Len(adminRoles) : adminRoles[j].Name \in {"root", "targets"}}}

\* byte order of the names of the model
NameRank == [alice |-> 3, bob |-> 4, Repository |-> 1, Root |-> 2]

\* sort.Slice with Name > Name: the names of a list are distinct
SortByNameDesc(signers) ==
    CHOOSE seq \in [1..Cardinality(signers) -> signers] :
        \A i, j \in 1..Cardinality(signers) :
            i < j => NameRank[seq[i].Name] > NameRank[seq[j].Name]

EmptyTrustRepo ==
    [Name |-> "", SignedTags |-> <<>>, Signers |-> <<>>, AdministrativeKeys |-> <<>>]

TargetsError == "trust server unreachable"

RolesError == "No signers for " \o DefaultNotaryServer

\* what a call of GetSignedMetadata leaves alone
NotMeta == <<validatorVars, authCall, parsing, cache, handler, repo>>

InitMeta ==
    /\ ValidatorOff
    /\ authCall = AuthOff
    /\ parsing = ParseOff
    /\ cache = CacheOff
    /\ handler = HandlerOff
    /\ repo = RepoOff
    /\ meta = [pc |-> "targets", allTargets |-> <<>>, signatureRows |-> <<>>,
               failed |-> {}, summary |-> EmptyTrustRepo, err |-> NoError]

MetaReturn(summary, err) ==
    [meta EXCEPT !.pc = "done", !.summary = summary, !.err = err]

\* GetAllTargetMetadataByName fails: return &trustRepo{}, err
TargetMetadataFails ==
    /\ meta.pc = "targets"
    /\ meta' = [MetaReturn(EmptyTrustRepo, TargetsError) EXCEPT !.failed = {"targets"}]
    /\ UNCHANGED NotMeta

\* GetAllTargetMetadataByName answers: the rows are reduced
TargetMetadataFetched ==
    /\ meta.pc = "targets"
    /\ \E allTargets \in TargetLists :
       \E rows \in matchReleasedSignatures(allTargets) :
           meta' = [meta EXCEPT !.pc = "roles", !.allTargets = allTargets,
                                !.signatureRows = rows]
    /\ UNCHANGED NotMeta

\* ListRoles fails: return &trustRepo{}, "No signers for ..."
ListRolesFails ==
    /\ meta.pc = "roles"
    /\ meta' = [MetaReturn(EmptyTrustRepo, RolesError) EXCEPT !.failed = {"roles"}]
    /\ UNCHANGED NotMeta

ListRolesFetched ==
    /\ meta.pc = "roles"
    /\ meta' = [meta EXCEPT !.pc = "delegations"]
    /\ UNCHANGED NotMeta

\* the summary GetSignedMetadata returns with the delegation roles it holds
trustRepoOf(delegationRoles) ==
    [Name               |-> "r/a",
     SignedTags         |-> addRepoAdmin(meta.signatureRows),
     Signers            |-> SortByNameDesc(getDelegationRoleToKeyMap(delegationRoles)),
     AdministrativeKeys |-> SortByNameDesc(adminSigners(AdminRoles))]

\* faulty variant: the error of GetDelegationRoles is returned
DelegationRolesFail_returns ==
    /\ meta.pc = "delegations"
    /\ meta' = [MetaReturn(EmptyTrustRepo, TargetsError) EXCEPT
                    !.failed = {"delegations"}]
    /\ UNCHANGED NotMeta

\* GetDelegationRoles fails: the error is logged, delegationRoles stays nil
DelegationRolesFail ==
    /\ meta.pc = "delegations"
    /\ meta' = [MetaReturn(trustRepoOf(<<>>), NoError) EXCEPT
                    !.failed = {"delegations"}]
    /\ UNCHANGED NotMeta

DelegationRolesFetched ==
    /\ meta.pc = "delegations"
    /\ \E delegationRoles \in DelegationRoleLists :
           meta' = MetaReturn(trustRepoOf(delegationRoles), NoError)
    /\ UNCHANGED NotMeta

NextMeta ==
    \/ TargetMetadataFails
    \/ TargetMetadataFetched
    \/ ListRolesFails
    \/ ListRolesFetched
    \/ DelegationRolesFail
    \/ DelegationRolesFetched

SpecMeta == InitMeta /\ [][NextMeta]_vars

MetaSucceeded == meta.pc = "done" /\ meta.err = NoError

\* the targets the trust server returned
TargetsSigned == {meta.allTargets[k] : k \in 1..Len(meta.allTargets)}

\* the (tag, digest) pairs signed into targets or targets/releases
ReleasedPairs ==
    {t.Key : t \in {u \in TargetsSigned : u.Role \in {"targets", "targets/releases"}}}

\* the delegated roles that signed the pair, without the targets/ prefix
DelegatesOf(pair) ==
    {IF t.Role = "targets/alice" THEN "alice" ELSE "bob" :
        t \in {u \in TargetsSigned :
                  u.Key = pair /\ u.Role \in {"targets/alice", "targets/bob"}}}

SeqToSet(seq) == {seq[k] : k \in 1..Len(seq)}

(* C17: the reduction returns exactly one row per distinct (tag, digest)
   pair signed into the targets role or its releases delegation; the signers
   of a row are the delegated roles (targets/ prefix stripped) that signed
   the same pair, or the single entry "Repo Admin" when none did; a pair
   signed only by a delegated role yields no row, and neither targets nor
   targets/releases appears as a named signer. *)
C17_OneRowPerReleasedPair ==
    MetaSucceeded =>
        LET rows == meta.summary.SignedTags
        IN  /\ Len(rows) = Cardinality(ReleasedPairs)
            /\ {[SignedTag |-> rows[k].SignedTag, Digest |-> rows[k].Digest] :
                    k \in 1..Len(rows)} = ReleasedPairs
            /\ \A k \in 1..Len(rows) :
                   LET pair == [SignedTag |-> rows[k].SignedTag,
                                Digest |-> rows[k].Digest]
                   IN  /\ SeqToSet(rows[k].Signers) =
                              IF DelegatesOf(pair) = {} THEN {"Repo Admin"}
                              ELSE DelegatesOf(pair)
                       /\ Len(rows[k].Signers) = Cardinality(SeqToSet(rows[k].Signers))
                       /\ SeqToSet(rows[k].Signers) \cap
                              {"targets", "targets/releases", "releases"} = {}

C17_Witness ==
    /\ MetaSucceeded
    /\ meta.allTargets =
           <<[Role |-> "targets/alice", Key |-> [SignedTag |-> "v2", Digest |-> "d1"]],
             [Role |-> "targets/releases", Key |-> [SignedTag |-> "v1", Digest |-> "d1"]],
             [Role |-> "targets/alice", Key |-> [SignedTag |-> "v1", Digest |-> "d1"]]>>
    /\ meta.summary.SignedTags =
           <<[SignedTag |-> "v1", Digest |-> "d1", Signers |-> <<"alice">>]>>

(* C20 as stated: GetSignedMetadata returns a non-nil error whenever one of
   its retrievals (all-target metadata, role list, delegation roles) fails;
   no summary is returned as a success after a failed retrieval. *)
C20_EveryRetrievalErrorReturned ==
    (meta.pc = "done" /\ meta.failed # {}) => meta.err # NoError

(* C20 amended: GetSignedMetadata returns a non-nil error, and the empty
   summary, exactly when the retrieval of the all-target metadata or of the
   role list fails; a failed retrieval of the delegation roles is only
   logged, and the summary is returned as a success with its signed-tag rows
   and an empty signer list. *)
C20_TargetAndRoleErrorsReturned ==
    meta.pc = "done" =>
        /\ meta.err # NoError <=> (meta.failed \cap {"targets", "roles"} # {})
        /\ meta.err # NoError => meta.summary = EmptyTrustRepo
        /\ "delegations" \in meta.failed =>
               /\ meta.err = NoError
               /\ meta.summary.Signers = <<>>
               /\ Len(meta.summary.SignedTags) = Cardinality(ReleasedPairs)

C20_Witness ==
    /\ meta.pc = "done"
    /\ meta.failed = {"delegations"}
    /\ meta.err = NoError
    /\ Len(meta.summary.SignedTags) = 2

(***************************************************************************)
(* GetToken of one notaryRepo: the token is fetched from the trust server  *)
(* when none is held or the held one has an empty type or value.           *)
(***************************************************************************)

\* GetToken calls made on one instance
MaxCalls == 3

\* n.image.BasicAuth: empty when the registry needs no credential
BasicAuths == {"", "dXNlcjpwdw=="}

\* the token field of a token response; empty when the answer carries none
TokenValues == {"", "t1", "t2"}

\* a *auth.Token: the empty sequence is nil, otherwise one Token
NilToken == <<>>

Token(type, value) == <<[Type |-> type, Value |-> value]>>

\* the condition of GetToken under which the token is fetched
needsFetch(token) ==
    IF token = NilToken THEN TRUE
    ELSE token[1].Type = "" \/ token[1].Value = ""

\* what a call of GetToken leaves alone
NotToken == <<validatorVars, authCall, parsing, cache, handler, meta>>

\* NewReadOnly: a fresh instance holds no token
InitToken ==
    /\ ValidatorOff
    /\ authCall = AuthOff
    /\ parsing = ParseOff
    /\ cache = CacheOff
    /\ handler = HandlerOff
    /\ meta = MetaOff
    /\ \E b \in BasicAuths :
          repo = [pc |-> "idle", token |-> NilToken, BasicAuth |-> b,
                  calls |-> 0, held |-> NilToken, requests |-> <<>>,
                  ret |-> NilToken, err |-> NoError]

\* GetToken returns (t, e); token is the n.token it leaves
TokenReturn(token, t, e, requests) ==
    /\ repo' = [repo EXCEPT !.pc = "idle", !.token = token, !.ret = t,
                            !.err = e, !.requests = requests]
    /\ UNCHANGED NotToken

\* fetchToken fails: GetToken returns (nil, err), n.token is not assigned
FetchTokenFails(e, requests) == TokenReturn(repo.token, NilToken, e, requests)

\* faulty variant: the token is fetched whatever is held
GetTokenFetches_always ==
    /\ repo.pc = "idle"
    /\ repo.calls < MaxCalls
    /\ repo' = [repo EXCEPT !.pc = "ping", !.calls = @ + 1,
                            !.held = repo.token, !.requests = <<>>]
    /\ UNCHANGED NotToken

\* GetToken, no usable token held: fetchToken is entered
GetTokenFetches ==
    /\ repo.pc = "idle"
    /\ repo.calls < MaxCalls
    /\ needsFetch(repo.token)
    /\ repo' = [repo EXCEPT !.pc = "ping", !.calls = @ + 1,
                            !.held = repo.token, !.requests = <<>>]
    /\ UNCHANGED NotToken

\* GetToken, a usable token held: it is returned as it is
GetTokenCached ==
    /\ repo.pc = "idle"
    /\ repo.calls < MaxCalls
    /\ ~needsFetch(repo.token)
    /\ repo' = [repo EXCEPT !.calls = @ + 1, !.held = repo.token,
                            !.requests = <<>>, !.ret = repo.token,
                            !.err = NoError]
    /\ UNCHANGED NotToken

\* fetchToken: the server URL does not parse, no request is sent
PingRequestInvalid ==
    /\ repo.pc = "ping"
    /\ FetchTokenFails("parse: invalid URL", <<>>)

\* fetchToken: the ping request fails in the transport
PingFails ==
    /\ repo.pc = "ping"
    /\ FetchTokenFails("ping: connection refused", <<"ping">>)

\* checkPingResponse on a 2xx answer: basic auth is used, or no token at all
PingAccepted ==
    /\ repo.pc = "ping"
    /\ LET token == IF repo.BasicAuth = "" THEN NilToken
                    ELSE Token("Basic", repo.BasicAuth)
       IN  TokenReturn(token, token, NoError, <<"ping">>)

\* fetchToken: the answer carries no challenge
PingNotChallenged ==
    /\ repo.pc = "ping"
    /\ FetchTokenFails("header does not contain WWW-Authenticate", <<"ping">>)

\* fetchToken: the challenge lacks realm or service
PingChallengeIncomplete ==
    /\ repo.pc = "ping"
    /\ FetchTokenFails("there is no realm or service in parameters", <<"ping">>)

\* fetchToken: the challenge names realm and service, setToken is entered
PingChallenged ==
    /\ repo.pc = "ping"
    /\ repo' = [repo EXCEPT !.pc = "token", !.requests = <<"ping">>]
    /\ UNCHANGED NotToken

\* setToken: the realm is no URL, no token request is sent
TokenRequestInvalid ==
    /\ repo.pc = "token"
    /\ FetchTokenFails("parse: invalid URL", <<"ping">>)

\* setToken: the token request fails in the transport
TokenRequestFails ==
    /\ repo.pc = "token"
    /\ FetchTokenFails("token: connection refused", <<"ping", "token">>)

\* setToken: the token answer has no success status
TokenRequestRefused ==
    /\ repo.pc = "token"
    /\ FetchTokenFails("token: unauthorized", <<"ping", "token">>)

\* setToken: the token answer cannot be decoded
TokenResponseUnreadable ==
    /\ repo.pc = "token"
    /\ FetchTokenFails("token: unexpected end of JSON input", <<"ping", "token">>)

\* setToken: the decoded token becomes the bearer token
TokenReceived ==
    /\ repo.pc = "token"
    /\ \E value \in TokenValues :
          LET token == Token("Bearer", value)
          IN  TokenReturn(token, token, NoError, <<"ping", "token">>)

NextToken ==
    \/ GetTokenFetches
    \/ GetTokenCached
    \/ PingRequestInvalid
    \/ PingFails
    \/ PingAccepted
    \/ PingNotChallenged
    \/ PingChallengeIncomplete
    \/ PingChallenged
    \/ TokenRequestInvalid
    \/ TokenRequestFails
    \/ TokenRequestRefused
    \/ TokenResponseUnreadable
    \/ TokenReceived

SpecToken == InitToken /\ [][NextToken]_vars

\* a GetToken call has returned
TokenCallReturned == repo.pc = "idle" /\ repo.calls > 0

(* C18: over any sequence of GetToken calls on one instance, the trust
   server is contacted (ping, and after a challenge the token request) only
   in a call entered with no token or with a token of empty type or value;
   a call entered with a token of non-empty type and value returns that
   token, keeps it and sends no request; a call that returns an error leaves
   the token held at its entry unchanged *)
C18_TokenFetchedOnlyWhenUnusable ==
    /\ repo.requests \in {<<>>, <<"ping">>, <<"ping", "token">>}
    /\ repo.requests # <<>> => needsFetch(repo.held)
    /\ repo.pc \in {"ping", "token"} =>
          needsFetch(repo.held) /\ repo.token = repo.held
    /\ TokenCallReturned =>
          /\ ~needsFetch(repo.held) =>
                /\ repo.requests = <<>>
                /\ repo.ret = repo.held
                /\ repo.token = repo.held
                /\ repo.err = NoError
          /\ repo.err # NoError =>
                /\ repo.token = repo.held
                /\ repo.ret = NilToken

C18_Witness ==
    /\ TokenCallReturned
    /\ repo.calls = 3
    /\ ~needsFetch(repo.held)
    /\ repo.held[1].Type = "Bearer"
    /\ repo.ret = repo.held
    /\ repo.requests = <<>>


====
